---- MODULE Spec2Model ----
(***************************************************************************)
(* Model of src/EntryPoint.cpp: the startup negotiation done by main(),    *)
(* the per-buffer audioCallback() run by the audio driver while the stream *)
(* is active, and the shutdown sequence.                                   *)
(*                                                                         *)
(* The audio driver (PortAudio) and the time-stretch engine (SoundTouch)   *)
(* are external: every result they return is an input chosen with \E.      *)
(* Normalized float samples are written as integers in units of 2^-15, so  *)
(* 1.0f is 32768 and every int16 / 32768.0f is exact.                      *)
(***************************************************************************)
EXTENDS Integers, Sequences, FiniteSets, TLC

(* ------------------------------ bounds --------------------------------- *)
MaxDevices == 2
MaxDeviceChannels == 3
MaxFrames == 2
\* largest magnitude of a normalized sample put through the converter (1.5f)
MaxSample == 49152

(* --------------------------- program constants ------------------------- *)
\* #define FRAMES_PER_BUFFER 512, scaled down to the bound MaxFrames
FRAMES_PER_BUFFER == MaxFrames

paFloat32 == "paFloat32"
paInt16 == "paInt16"

paNoError == "paNoError"
paSampleFormatNotSupported == "paSampleFormatNotSupported"
paOtherError == "paInvalidDevice"
PaOpenErrors == {paNoError, paSampleFormatNotSupported, paOtherError}

paContinue == "paContinue"

\* content of a driver output buffer cell the callback has not written
Stale == 99999

(* ------------------------ environment input sets ----------------------- *)
SampleRates == {44100, 48000}

PaDeviceInfo ==
  [maxInputChannels : 0..MaxDeviceChannels,
   maxOutputChannels : 0..MaxDeviceChannels,
   defaultSampleRate : SampleRates]

\* *inInfo and *outInfo as main() reads them: the channel count of the other
\* direction is never read and is left out (0)
InputView(info) == [info EXCEPT !.maxOutputChannels = 0]
OutputView(info) == [info EXCEPT !.maxInputChannels = 0]

NullInfo == [maxInputChannels |-> 0, maxOutputChannels |-> 0, defaultSampleRate |-> 0]
NullParams == [device |-> 0, channelCount |-> 0, sampleFormat |-> "unset"]
NullCbData == [hST |-> "none", format |-> "unset", channels |-> 0]
NullEngine == [state |-> "none", sampleRate |-> 0, channels |-> 0, pitch |-> 0]

\* first sample of the buffers the driver hands to the callback
InBases == {-32768, 12345}
\* first sample (units of 2^-15) of the frames the engine returns
EngineBases == {-49152, 16384}

VARIABLES
  pc,            \* position of main()
  err,           \* PaError err
  numDevices,    \* int numDevices
  inputDevice,   \* int inputDevice
  outputDevice,  \* int outputDevice
  inInfo,        \* *inInfo
  outInfo,       \* *outInfo
  sampleRate,    \* double sampleRate
  inChannels,    \* int inChannels
  outChannels,   \* int outChannels
  inputParams,   \* PaStreamParameters inputParams
  outputParams,  \* PaStreamParameters outputParams
  engine,        \* the SoundTouch instance behind hST
  fmt,           \* PaSampleFormat fmt
  cbData,        \* CallbackData cbData
  stream,        \* state of the PaStream behind stream
  ret,           \* value returned by main(), "none" while running
  calls,         \* library calls made by main(), in order
  opens,         \* Pa_OpenStream requests, in order
  cb,            \* record of the last audioCallback invocation
  everRunning,   \* history: Pa_StartStream succeeded
  hist,          \* history: record of some earlier audioCallback invocation
  conv           \* one sample on its way through the format converter

vars == <<pc, err, numDevices, inputDevice, outputDevice, inInfo, outInfo,
          sampleRate, inChannels, outChannels, inputParams, outputParams,
          engine, fmt, cbData, stream, ret, calls, opens, cb, everRunning,
          hist, conv>>

aux == <<hist, conv>>
negotiated == <<inInfo, outInfo, sampleRate, inChannels, outChannels>>
selected == <<numDevices, inputDevice, outputDevice>>
params == <<inputParams, outputParams>>

NoCallback ==
  [invoked |-> FALSE, format |-> "unset", channels |-> 0, inputNull |-> FALSE,
   input |-> <<>>, inputRead |-> 0, inFloat |-> <<>>, fed |-> <<>>, fedFrames |-> 0,
   drainMax |-> 0, received |-> 0, engineOut |-> <<>>,
   outFloat |-> <<>>, output |-> <<>>, overrun |-> 0, result |-> "none",
   ops |-> <<>>]

NoConv == [kind |-> "none", s |-> 0, v |-> 0, out |-> 0, stage |-> "none"]

\* main() has not started
InitMain ==
  /\ pc = "init"
  /\ err = paNoError
  /\ numDevices = 0
  /\ inputDevice = 0
  /\ outputDevice = 0
  /\ inInfo = NullInfo
  /\ outInfo = NullInfo
  /\ sampleRate = 0
  /\ inChannels = 0
  /\ outChannels = 0
  /\ inputParams = NullParams
  /\ outputParams = NullParams
  /\ engine = NullEngine
  /\ fmt = "unset"
  /\ cbData = NullCbData
  /\ stream = "null"
  /\ ret = "none"
  /\ calls = <<>>
  /\ opens = <<>>
  /\ cb = NoCallback
  /\ everRunning = FALSE

Init ==
  /\ InitMain
  /\ hist = NoCallback
  /\ conv = NoConv

(* ------------------------------ helpers -------------------------------- *)
Min(a, b) == IF a < b THEN a ELSE b

\* variant: takes the larger of the two default rates
NegotiateSampleRate_Max(inI, outI) ==
  IF inI.defaultSampleRate > outI.defaultSampleRate
  THEN inI.defaultSampleRate ELSE outI.defaultSampleRate

\* std::min(inInfo->defaultSampleRate, outInfo->defaultSampleRate)
NegotiateSampleRate(inI, outI) == Min(inI.defaultSampleRate, outI.defaultSampleRate)

\* (n >= 2 ? 2 : (n > 0 ? 1 : 0))
PickChannels(n) == IF n >= 2 THEN 2 ELSE IF n > 0 THEN 1 ELSE 0

\* variant: rejects only when both sides have no channel
NoUsableChannels_Both(inCh, outCh) == inCh = 0 /\ outCh = 0

\* inChannels == 0 || outChannels == 0
NoUsableChannels(inCh, outCh) == inCh = 0 \/ outCh = 0

\* inputDevice < 0 || inputDevice >= numDevices || outputDevice < 0 || ...
InvalidDeviceId(inDev, outDev, n) ==
  inDev < 0 \/ inDev >= n \/ outDev < 0 \/ outDev >= n

\* library calls made on each early-exit path before returning -1
\* variant: returns without shutting the driver down
EnumFailureCleanup_Leak == <<>>
\* variant: forgets the engine on the open-failure path
OpenFailureCleanup_Leak == <<"Pa_Terminate">>

EnumFailureCleanup == <<"Pa_Terminate">>
InvalidIdCleanup == <<"Pa_Terminate">>
NoChannelsCleanup == <<"Pa_Terminate">>
OpenFailureCleanup == <<"soundtouch_destroyInstance", "Pa_Terminate">>

\* effect of a sequence of cleanup calls on the engine
EngineAfter(e, cs) ==
  IF \E i \in 1..Len(cs) : cs[i] = "soundtouch_destroyInstance"
  THEN [e EXCEPT !.state = "destroyed"] ELSE e

(* ------------------------------- main() -------------------------------- *)
\* PaError err = Pa_Initialize(); if (err != paNoError) return -1;
PaInitialize ==
  /\ pc = "init"
  /\ \E e \in {paNoError, paOtherError} :
       /\ err' = e
       /\ calls' = Append(calls, "Pa_Initialize")
       /\ IF e # paNoError
          THEN pc' = "done" /\ ret' = -1
          ELSE pc' = "count" /\ ret' = ret
  /\ UNCHANGED <<selected, negotiated, params, engine, fmt, cbData, stream, opens, cb, everRunning, aux>>

\* int numDevices = Pa_GetDeviceCount(); if (numDevices < 0) {Pa_Terminate(); return -1;}
\* the listing loop only prints
GetDeviceCount ==
  /\ pc = "count"
  /\ \E n \in (-1)..MaxDevices :
       /\ numDevices' = n
       /\ IF n < 0
          THEN /\ calls' = Append(calls, "Pa_GetDeviceCount") \o EnumFailureCleanup
               /\ pc' = "done" /\ ret' = -1
          ELSE /\ calls' = Append(calls, "Pa_GetDeviceCount")
               /\ pc' = "select" /\ ret' = ret
  /\ UNCHANGED <<err, inputDevice, outputDevice, negotiated, params, engine, fmt,
                 cbData, stream, opens, cb, everRunning, aux>>

\* std::cin >> inputDevice; std::cin >> outputDevice; range check
SelectDevices ==
  /\ pc = "select"
  /\ \E i \in (-1)..MaxDevices, o \in (-1)..MaxDevices :
       /\ inputDevice' = i
       /\ outputDevice' = o
       /\ IF InvalidDeviceId(i, o, numDevices)
          THEN /\ calls' = calls \o InvalidIdCleanup
               /\ pc' = "done" /\ ret' = -1
          ELSE /\ calls' = calls
               /\ pc' = "negotiate" /\ ret' = ret
  /\ UNCHANGED <<err, numDevices, negotiated, params, engine, fmt, cbData, stream,
                 opens, cb, everRunning, aux>>

\* Pa_GetDeviceInfo for both ids, sample rate, channels, zero-channel check,
\* inputParams / outputParams
Negotiate ==
  /\ pc = "negotiate"
  /\ \E inI \in PaDeviceInfo, outI \in PaDeviceInfo :
       /\ inputDevice = outputDevice => inI = outI
       /\ inInfo' = InputView(inI)
       /\ outInfo' = OutputView(outI)
       /\ sampleRate' = NegotiateSampleRate(inI, outI)
       /\ inChannels' = PickChannels(inI.maxInputChannels)
       /\ outChannels' = PickChannels(outI.maxOutputChannels)
       /\ IF NoUsableChannels(inChannels', outChannels')
          THEN /\ calls' = calls \o NoChannelsCleanup
               /\ pc' = "done" /\ ret' = -1
               /\ UNCHANGED params
          ELSE /\ calls' = calls
               /\ pc' = "engine" /\ ret' = ret
               /\ inputParams' = [device |-> inputDevice, channelCount |-> inChannels',
                                  sampleFormat |-> "unset"]
               /\ outputParams' = [device |-> outputDevice, channelCount |-> outChannels',
                                   sampleFormat |-> "unset"]
  /\ UNCHANGED <<err, selected, engine, fmt, cbData, stream, opens, cb, everRunning, aux>>

\* SoundTouch setup: create the instance and configure it
\* (sample rates are whole Hz, so the cast to unsigned int keeps the value)
EngineSetup ==
  /\ pc = "engine"
  /\ engine' = [state |-> "live", sampleRate |-> sampleRate, channels |-> inChannels,
                pitch |-> -4]
  /\ calls' = calls \o <<"soundtouch_createInstance", "soundtouch_setSampleRate",
                         "soundtouch_setChannels", "soundtouch_setPitchSemiTones">>
  /\ pc' = "open1"
  /\ UNCHANGED <<err, selected, negotiated, params, fmt, cbData, stream, ret, opens, cb, everRunning, aux>>

\* one Pa_OpenStream call: its arguments and the PaError e the driver returned
OpenCall(inP, outP, rate, data, e) ==
  [result |-> e, inputChannelCount |-> inP.channelCount, inputFormat |-> inP.sampleFormat,
   outputChannelCount |-> outP.channelCount, outputFormat |-> outP.sampleFormat,
   sampleRate |-> rate, framesPerBuffer |-> FRAMES_PER_BUFFER,
   userChannels |-> data.channels]

\* Pa_OpenStream: the driver answers e; the stream exists only on paNoError
StreamAfterOpen(s, e) == IF e = paNoError THEN "open" ELSE s

\* fmt = paFloat32; both params; CallbackData cbData{hST, fmt, inChannels};
\* err = Pa_OpenStream(...)
OpenFloat32 ==
  /\ pc = "open1"
  /\ fmt' = paFloat32
  /\ inputParams' = [inputParams EXCEPT !.sampleFormat = fmt']
  /\ outputParams' = [outputParams EXCEPT !.sampleFormat = fmt']
  /\ cbData' = [hST |-> "hST", format |-> fmt', channels |-> inChannels]
  /\ \E e \in PaOpenErrors :
       /\ err' = e
       /\ stream' = StreamAfterOpen(stream, e)
       /\ opens' = Append(opens, OpenCall(inputParams', outputParams', sampleRate,
                                          cbData', e))
  /\ calls' = Append(calls, "Pa_OpenStream")
  /\ pc' = "opened1"
  /\ UNCHANGED <<selected, negotiated, engine, ret, cb, everRunning, aux>>

\* variant: retries after any failure
ShouldRetry_AnyFailure(e) == e # paNoError

\* if (err == paSampleFormatNotSupported)
ShouldRetry(e) == e = paSampleFormatNotSupported

\* variant: the retry leaves the callback's format alone
RetryCbData_Stale(data, f) == data

\* cbData.format = fmt;
RetryCbData(data, f) == [data EXCEPT !.format = f]

\* the retry block: fmt = paInt16; both params; cbData.format; Pa_OpenStream again
RetryInt16 ==
  /\ pc = "opened1"
  /\ ShouldRetry(err)
  /\ fmt' = paInt16
  /\ inputParams' = [inputParams EXCEPT !.sampleFormat = fmt']
  /\ outputParams' = [outputParams EXCEPT !.sampleFormat = fmt']
  /\ cbData' = RetryCbData(cbData, fmt')
  /\ \E e \in PaOpenErrors :
       /\ err' = e
       /\ stream' = StreamAfterOpen(stream, e)
       /\ opens' = Append(opens, OpenCall(inputParams', outputParams', sampleRate,
                                          cbData', e))
  /\ calls' = Append(calls, "Pa_OpenStream")
  /\ pc' = "opened2"
  /\ UNCHANGED <<selected, negotiated, engine, ret, cb, everRunning, aux>>

\* main has passed the retry block
PastRetry == (pc = "opened1" /\ ~ShouldRetry(err)) \/ pc = "opened2"

\* if (err != paNoError) { destroyInstance; Pa_Terminate; return -1; }
OpenFailed ==
  /\ PastRetry
  /\ err # paNoError
  /\ calls' = calls \o OpenFailureCleanup
  /\ engine' = EngineAfter(engine, OpenFailureCleanup)
  /\ pc' = "done"
  /\ ret' = -1
  /\ UNCHANGED <<err, selected, negotiated, params, fmt, cbData, stream, opens, cb, everRunning, aux>>

\* Pa_StartStream(stream); the PaError it returns is discarded
StartStream ==
  /\ PastRetry
  /\ err = paNoError
  /\ \E e \in {paNoError, paOtherError} :
       /\ stream' = IF e = paNoError THEN "running" ELSE stream
       /\ everRunning' = (e = paNoError)
  /\ calls' = Append(calls, "Pa_StartStream")
  /\ pc' = "wait"
  /\ UNCHANGED <<err, selected, negotiated, params, engine, fmt, cbData, ret, opens, cb, aux>>

\* variant: destroys the engine before stopping the stream
StopStream_DestroyFirst ==
  /\ pc = "wait"
  /\ engine' = [engine EXCEPT !.state = "destroyed"]
  /\ stream' = IF stream = "running" THEN "stopped" ELSE stream
  /\ calls' = calls \o <<"soundtouch_destroyInstance", "Pa_StopStream">>
  /\ pc' = "close"
  /\ UNCHANGED <<err, selected, negotiated, params, fmt, cbData, ret, opens, cb,
                 everRunning, aux>>

\* std::cin.get() returns; Pa_StopStream(stream)
StopStream ==
  /\ pc = "wait"
  /\ stream' = IF stream = "running" THEN "stopped" ELSE stream
  /\ calls' = Append(calls, "Pa_StopStream")
  /\ pc' = "close"
  /\ UNCHANGED <<err, selected, negotiated, params, engine, fmt, cbData, ret, opens, cb, everRunning, aux>>

\* variant: releases the engine first, then the stream
CloseStream_EngineFirst ==
  /\ pc = "close"
  /\ engine' = [engine EXCEPT !.state = "destroyed"]
  /\ stream' = "closed"
  /\ calls' = calls \o <<"soundtouch_destroyInstance", "Pa_CloseStream">>
  /\ pc' = "terminate"
  /\ UNCHANGED <<err, selected, negotiated, params, fmt, cbData, ret, opens, cb,
                 everRunning, aux>>

\* Pa_CloseStream(stream)
CloseStream ==
  /\ pc = "close"
  /\ stream' = "closed"
  /\ calls' = Append(calls, "Pa_CloseStream")
  /\ pc' = "destroy"
  /\ UNCHANGED <<err, selected, negotiated, params, engine, fmt, cbData, ret, opens, cb, everRunning, aux>>

\* soundtouch_destroyInstance(hST)
DestroyEngine ==
  /\ pc = "destroy"
  /\ engine' = [engine EXCEPT !.state = "destroyed"]
  /\ calls' = Append(calls, "soundtouch_destroyInstance")
  /\ pc' = "terminate"
  /\ UNCHANGED <<err, selected, negotiated, params, fmt, cbData, stream, ret, opens, cb, everRunning, aux>>

\* Pa_Terminate(); return 0;
Terminate ==
  /\ pc = "terminate"
  /\ calls' = Append(calls, "Pa_Terminate")
  /\ pc' = "done"
  /\ ret' = 0
  /\ UNCHANGED <<err, selected, negotiated, params, engine, fmt, cbData, stream, opens, cb, everRunning, aux>>

(* --------------------------- audioCallback ----------------------------- *)
\* 1.0f in the model's sample unit (2^-15)
NormOne == 32768
\* in[i] / 32768.0f
Int16Divisor == 32768
\* sample * 32767.0f
Int16Scale == 32767
\* a float carries 24 significant bits
FloatMantissa == 2^24

Abs(x) == IF x < 0 THEN -x ELSE x

\* C++ conversion of a quotient to an integer: toward zero
TruncDiv(a, b) == IF a >= 0 THEN a \div b ELSE -((-a) \div b)

RECURSIVE Ulp(_, _)
\* spacing of the floats around magnitude m (q is the candidate spacing)
Ulp(m, q) == IF m < FloatMantissa * q THEN q ELSE Ulp(m, 2 * q)

\* round-to-nearest-even of an exact product to float precision
RoundFloat(p) ==
  LET m == Abs(p)
      q == Ulp(m, 1)
      r == m % q
      lo == m - r
      up == IF 2 * r > q \/ (2 * r = q /\ (lo \div q) % 2 = 1) THEN lo + q ELSE lo
  IN IF p < 0 THEN -up ELSE up

\* variant: divides by the full unsigned 16-bit range
toNormalized_HalfScale(s) == (s * NormOne) \div (2 * Int16Divisor)

\* inFloat[i] = in[i] / 32768.0f : exact, a power-of-two division
toNormalized(s) == (s * NormOne) \div Int16Divisor

\* variant: scales without clamping first
toFixed16_NoClamp(v) == TruncDiv(v * Int16Scale, NormOne)

\* clamp to [-1.0f, 1.0f], multiply by 32767.0f in float, cast to int16_t
toFixed16(v) ==
  LET hi == IF v > NormOne THEN NormOne ELSE v
      c == IF hi < -NormOne THEN -NormOne ELSE hi
  IN TruncDiv(RoundFloat(c * Int16Scale), NormOne)

\* std::vector<float> v(n): n value-initialized floats
Zeros(n) == [i \in 1..n |-> 0]

\* the "Convert input to float" block
ConvertInput(format, isNull, input, n) ==
  IF isNull THEN Zeros(n)
  ELSE IF format = paFloat32 THEN [i \in 1..n |-> input[i]]
  ELSE IF format = paInt16 THEN [i \in 1..n |-> toNormalized(input[i])]
  ELSE Zeros(n)

\* soundtouch_receiveSamples writes received frames of the engine's channel
\* count at the start of outFloat
Receive(outFloat, engineOut) ==
  [i \in 1..Len(outFloat) |-> IF i <= Len(engineOut) THEN engineOut[i] ELSE outFloat[i]]

\* for (i = received * channels; i < framesPerBuffer * channels; i++) outFloat[i] = 0
PadSilence(outFloat, received, channels) ==
  [i \in 1..Len(outFloat) |-> IF i > received * channels THEN 0 ELSE outFloat[i]]

\* the "Convert float back to output format" block: the samples stored through out
ConvertOutput(format, outFloat) ==
  IF format = paFloat32 THEN outFloat
  ELSE IF format = paInt16 THEN [i \in 1..Len(outFloat) |-> toFixed16(outFloat[i])]
  ELSE <<>>

\* the driver's output buffer of outLen samples after the callback stored
\* written through the out pointer
StoreOutput(written, outLen) ==
  [i \in 1..outLen |-> IF i <= Len(written) THEN written[i] ELSE Stale]

\* a buffer the driver or the engine supplies: n consecutive sample values
Ramp(base, n) == [i \in 1..n |-> base + i - 1]

\* variant: the scratch buffer is a static that keeps its previous content
FreshBuffer_Static(prev, n) == IF Len(prev) = n THEN prev ELSE Zeros(n)

\* std::vector<float> inFloat(n) / outFloat(n): storage allocated and zeroed
\* on every invocation, whatever the previous invocation (prev) left behind
FreshBuffer(prev, n) == Zeros(n)

\* variant: feeds the engine only when the driver supplied input
ShouldFeed_OnlyInput(isNull, inFloat) == ~isNull /\ Len(inFloat) > 0

\* if (!inFloat.empty())
ShouldFeed(isNull, inFloat) == Len(inFloat) > 0

\* variant: drains the engine before feeding it
CallbackOps_DrainFirst(feeds) ==
  <<"alloc", "alloc", "convert-input", "drain">>
    \o (IF feeds THEN <<"feed">> ELSE <<>>)
    \o <<"pad", "convert-output", "free", "free">>

\* the operations of one invocation in program order: the two vector
\* constructions, the conversion block, putSamples, receiveSamples, the pad
\* loop, the output block and the two vector destructions at return
CallbackOps(feeds) ==
  <<"alloc", "alloc", "convert-input">>
    \o (IF feeds THEN <<"feed">> ELSE <<>>)
    \o <<"drain", "pad", "convert-output", "free", "free">>

\* variant: asks the driver to finish when the engine returned nothing
CallbackResult_CompleteOnEmpty(received) ==
  IF received = 0 THEN "paComplete" ELSE paContinue

\* return paContinue;
CallbackResult(received) == paContinue

\* number of samples read through the input pointer: none when it is null
SamplesRead(isNull, n) == IF isNull THEN 0 ELSE n

\* the callback only reads *userData
CbDataAfterCallback(data) == data

\* one invocation of audioCallback by the driver thread while the stream runs.
\* The driver's buffers hold framesPerBuffer frames of the channel counts the
\* stream was opened with; the engine returns received frames of its own
\* channel count.  Writing past the end of the driver's output buffer is
\* undefined: the process either carries on with corrupted memory or dies.
CallbackStep ==
  /\ pc = "wait"
  /\ stream = "running"
  /\ \E isNull \in BOOLEAN, inBase \in InBases, received \in 0..FRAMES_PER_BUFFER,
        engBase \in EngineBases, crash \in BOOLEAN :
       LET framesPerBuffer == FRAMES_PER_BUFFER
           channels == cbData.channels
           n == framesPerBuffer * channels
           input == IF isNull THEN <<>>
                    ELSE Ramp(inBase, framesPerBuffer * inputParams.channelCount)
           inFloat0 == FreshBuffer(cb.inFloat, n)
           inFloat == IF isNull THEN inFloat0
                      ELSE ConvertInput(cbData.format, isNull, input, n)
           feeds == ShouldFeed(isNull, inFloat)
           engineOut == Ramp(engBase, received * engine.channels)
           outFloat == PadSilence(Receive(FreshBuffer(cb.outFloat, n), engineOut),
                                  received, channels)
           written == ConvertOutput(cbData.format, outFloat)
           outLen == framesPerBuffer * outputParams.channelCount
           over == IF Len(written) > outLen THEN Len(written) - outLen ELSE 0
       IN /\ isNull => inBase = CHOOSE b \in InBases : TRUE
          /\ received = 0 => engBase = CHOOSE b \in EngineBases : TRUE
          /\ crash => over > 0
          /\ cb' = [invoked |-> TRUE, format |-> cbData.format, channels |-> channels,
                    inputNull |-> isNull, input |-> input,
                    inputRead |-> SamplesRead(isNull, n),
                    inFloat |-> inFloat,
                    fed |-> IF feeds THEN inFloat ELSE <<>>,
                    fedFrames |-> IF feeds THEN framesPerBuffer ELSE 0,
                    drainMax |-> framesPerBuffer,
                    received |-> received, engineOut |-> engineOut,
                    outFloat |-> outFloat,
                    output |-> StoreOutput(written, outLen), overrun |-> over,
                    result |-> IF crash THEN "none" ELSE CallbackResult(received),
                    ops |-> CallbackOps(feeds)]
          /\ pc' = IF crash THEN "crashed" ELSE pc
  /\ cbData' = CbDataAfterCallback(cbData)
  /\ UNCHANGED <<err, selected, negotiated, params, engine, fmt, stream, ret,
                 calls, opens, everRunning, conv>>

\* the callback as part of the whole program
AudioCallback ==
  /\ CallbackStep
  /\ UNCHANGED hist

Next ==
  \/ PaInitialize
  \/ GetDeviceCount
  \/ SelectDevices
  \/ Negotiate
  \/ EngineSetup
  \/ OpenFloat32
  \/ RetryInt16
  \/ OpenFailed
  \/ StartStream
  \/ AudioCallback
  \/ StopStream
  \/ CloseStream
  \/ DestroyEngine
  \/ Terminate

Spec == Init /\ [][Next]_vars

(* ---------------- the callback on a running stream -------------------- *)
\* main() blocked in std::cin.get() with the stream running and no callback
\* yet: one device chosen for both directions, opened at the first attempt
\* or at the retry
RunningMain ==
  \E info \in PaDeviceInfo, retried \in BOOLEAN :
    LET inCh == PickChannels(info.maxInputChannels)
        outCh == PickChannels(info.maxOutputChannels)
        rate == NegotiateSampleRate(info, info)
        f == IF retried THEN paInt16 ELSE paFloat32
        inP(ff) == [device |-> 0, channelCount |-> inCh, sampleFormat |-> ff]
        outP(ff) == [device |-> 0, channelCount |-> outCh, sampleFormat |-> ff]
        data(ff) == [hST |-> "hST", format |-> ff, channels |-> inCh]
        first == OpenCall(inP(paFloat32), outP(paFloat32), rate, data(paFloat32),
                          IF retried THEN paSampleFormatNotSupported ELSE paNoError)
        second == OpenCall(inP(paInt16), outP(paInt16), rate, data(paInt16), paNoError)
    IN /\ ~NoUsableChannels(inCh, outCh)
       /\ pc = "wait"
       /\ err = paNoError
       /\ numDevices = 1
       /\ inputDevice = 0
       /\ outputDevice = 0
       /\ inInfo = InputView(info)
       /\ outInfo = OutputView(info)
       /\ sampleRate = rate
       /\ inChannels = inCh
       /\ outChannels = outCh
       /\ inputParams = inP(f)
       /\ outputParams = outP(f)
       /\ engine = [state |-> "live", sampleRate |-> rate, channels |-> inCh,
                    pitch |-> -4]
       /\ fmt = f
       /\ cbData = data(f)
       /\ stream = "running"
       /\ ret = "none"
       /\ calls = <<"Pa_Initialize", "Pa_GetDeviceCount", "soundtouch_createInstance",
                    "soundtouch_setSampleRate", "soundtouch_setChannels",
                    "soundtouch_setPitchSemiTones", "Pa_OpenStream">>
                    \o (IF retried THEN <<"Pa_OpenStream">> ELSE <<>>)
                    \o <<"Pa_StartStream">>
       /\ opens = (IF retried THEN <<first, second>> ELSE <<first>>)
       /\ cb = NoCallback
       /\ everRunning = TRUE

InitRunning ==
  /\ RunningMain
  /\ hist = NoCallback
  /\ conv = NoConv

\* the callback, with the record of some earlier invocation kept in hist
TracedCallback ==
  /\ CallbackStep
  /\ hist' \in {hist, cb}

NextCb == TracedCallback

SpecCb == InitRunning /\ [][NextCb]_vars

(* ------------------- the format converter on its own ------------------- *)
\* range of int16_t
Int16Min == -(2^15)
Int16Max == 2^15 - 1

\* one sample enters the converter: a normalized float headed for the
\* Fixed16 output block, or an int16 input sample headed for the round trip
InitConv ==
  /\ InitMain
  /\ hist = NoCallback
  /\ \/ \E v \in (-MaxSample)..MaxSample :
          conv = [kind |-> "normalized", s |-> 0, v |-> v, out |-> 0, stage |-> "in"]
     \/ \E x \in Int16Min..Int16Max :
          conv = [kind |-> "fixed16", s |-> x, v |-> 0, out |-> 0, stage |-> "in"]

main == <<pc, err, selected, negotiated, params, engine, fmt, cbData, stream, ret,
          calls, opens, cb, everRunning>>

\* the Fixed16 branch of the output block applied to one normalized sample
ConvertToFixed16 ==
  /\ conv.kind = "normalized"
  /\ conv.stage = "in"
  /\ conv' = [conv EXCEPT !.out = toFixed16(conv.v), !.stage = "out"]
  /\ UNCHANGED <<main, hist>>

\* the Fixed16 branch of the input block followed by that of the output block
RoundTrip ==
  /\ conv.kind = "fixed16"
  /\ conv.stage = "in"
  /\ conv' = [conv EXCEPT !.v = toNormalized(conv.s),
                          !.out = toFixed16(toNormalized(conv.s)),
                          !.stage = "out"]
  /\ UNCHANGED <<main, hist>>

NextConv ==
  \/ ConvertToFixed16
  \/ RoundTrip

SpecConv == InitConv /\ [][NextConv]_vars

(* ============================== claims ================================= *)
Count(cs, name) == Cardinality({i \in 1..Len(cs) : cs[i] = name})
\* position of the first call of that name, 0 when there is none
Index(cs, name) ==
  IF \E i \in 1..Len(cs) : cs[i] = name
  THEN CHOOSE i \in 1..Len(cs) : cs[i] = name /\ \A j \in 1..(i - 1) : cs[j] # name
  ELSE 0
Before(cs, a, b) == Index(cs, a) > 0 /\ Index(cs, b) > 0 => Index(cs, a) < Index(cs, b)
Started == Count(calls, "Pa_StartStream") > 0
LastOpen == opens[Len(opens)]

\* C1: main issues at most two stream-open requests; the first is Float32; a
\* second one is issued exactly when the first returned FormatNotSupported, and
\* it is Fixed16; after any other failure of the first attempt, or any failure
\* of the retry, no further open is made and the stream is never started.
C1_OpenProtocol ==
  /\ Len(opens) <= 2
  /\ Count(calls, "Pa_OpenStream") = Len(opens)
  /\ Len(opens) >= 1 =>
       /\ opens[1].inputFormat = paFloat32
       /\ opens[1].outputFormat = paFloat32
  /\ Len(opens) = 2 =>
       /\ opens[1].result = paSampleFormatNotSupported
       /\ opens[2].inputFormat = paInt16
       /\ opens[2].outputFormat = paInt16
  /\ (Len(opens) >= 1 /\ pc # "opened1" /\ opens[1].result = paSampleFormatNotSupported)
       => Len(opens) = 2
  /\ (Len(opens) >= 1 /\ opens[1].result \notin {paNoError, paSampleFormatNotSupported})
       => Len(opens) = 1 /\ ~Started /\ stream = "null"
  /\ (Len(opens) = 2 /\ opens[2].result # paNoError)
       => ~Started /\ stream = "null"

C1_Witness ==
  /\ pc = "done"
  /\ Len(opens) = 2
  /\ opens[2].result = paSampleFormatNotSupported

\* C2: while the stream is Running the format in the callback's configuration
\* is the format of the open request that succeeded (Float32 for the first
\* attempt, Fixed16 for the retry), every callback invocation ran with that
\* format, and the configuration does not change while Running.
C2_ActiveFormat ==
  /\ [](stream = "running" =>
          /\ LastOpen.result = paNoError
          /\ cbData.format = LastOpen.inputFormat
          /\ cbData.format = LastOpen.outputFormat
          /\ cbData.format = (IF Len(opens) = 1 THEN paFloat32 ELSE paInt16)
          /\ cb.invoked => cb.format = cbData.format)
  /\ [][stream = "running" /\ stream' = "running" => cbData' = cbData]_vars

C2_Witness ==
  /\ stream = "running"
  /\ Len(opens) = 2
  /\ cb.invoked
  /\ cb.format = paInt16

\* the value the callback stores for normalized sample v in the active format
OutSample(format, v) == IF format = paInt16 THEN toFixed16(v) ELSE v

\* C3: after every callback invocation the driver's output buffer holds the
\* engine's samples in frames 0..received-1 and zero in every channel of the
\* frames received..framesPerBuffer-1; no cell is left stale.
C3_PaddedOutput ==
  cb.invoked =>
    \A f \in 0..(FRAMES_PER_BUFFER - 1), c \in 0..(outputParams.channelCount - 1) :
      LET cell == cb.output[f * outputParams.channelCount + c + 1]
      IN /\ cell # Stale
         /\ f >= cb.received => cell = 0
         /\ (f < cb.received /\ c < engine.channels) =>
              cell = OutSample(cb.format, cb.engineOut[f * engine.channels + c + 1])

\* C4: the channel count configured on the engine and used by the callback is
\* the smaller of the input-side value and the output-side value.
C4_SharedChannels ==
  engine.state # "none" =>
    LET inSide == IF inInfo.maxInputChannels >= 2 THEN 2 ELSE 1
        outSide == IF outInfo.maxOutputChannels >= 2 THEN 2 ELSE 1
        smaller == IF inSide < outSide THEN inSide ELSE outSide
    IN /\ engine.channels = smaller
       /\ cbData.hST # "none" => cbData.channels = smaller
       /\ cb.invoked => cb.channels = smaller

\* C5: every stream-open request has the same channel count for input and
\* output, equal to the callback's channel count; the callback reads
\* framesPerBuffer x input channels samples, writes framesPerBuffer x output
\* channels samples and never writes past the end of the output buffer.
C5_SameChannelCount ==
  /\ \A i \in 1..Len(opens) :
       /\ opens[i].inputChannelCount = opens[i].outputChannelCount
       /\ opens[i].userChannels = opens[i].inputChannelCount
  /\ cb.invoked =>
       /\ Len(cb.fed) = FRAMES_PER_BUFFER * inputParams.channelCount
       /\ Len(cb.outFloat) = FRAMES_PER_BUFFER * outputParams.channelCount
       /\ cb.overrun = 0

\* C6: when the input device has no input channel or the output device has no
\* output channel, negotiation fails: main returns -1, no engine instance is
\* created and no stream-open request is issued.
C6_ZeroChannelsFail ==
  (inInfo # NullInfo /\ (inInfo.maxInputChannels = 0 \/ outInfo.maxOutputChannels = 0)) =>
    /\ pc = "done"
    /\ ret = -1
    /\ engine.state = "none"
    /\ Count(calls, "soundtouch_createInstance") = 0
    /\ opens = <<>>
    /\ Count(calls, "Pa_OpenStream") = 0
    /\ stream = "null"

C6_Witness ==
  /\ pc = "done"
  /\ inInfo # NullInfo
  /\ inInfo.maxInputChannels > 0
  /\ outInfo.maxOutputChannels = 0

\* the driver subsystem was initialized: main got past Pa_Initialize
Initialized == Count(calls, "Pa_GetDeviceCount") = 1
StreamOpened == \E i \in 1..Len(opens) : opens[i].result = paNoError

\* C7: when main has returned after the driver subsystem was initialized,
\* every acquired resource has been released exactly once, nothing that was
\* never acquired has been released, and the releases are in the order stop
\* stream, close stream, destroy engine, shut down the driver.
C7_OrderedRelease ==
  (pc = "done" /\ Initialized) =>
    /\ Count(calls, "Pa_Terminate") = 1
    /\ calls[Len(calls)] = "Pa_Terminate"
    /\ Count(calls, "soundtouch_destroyInstance") = Count(calls, "soundtouch_createInstance")
    /\ Count(calls, "soundtouch_createInstance") <= 1
    /\ engine.state # "live"
    /\ Count(calls, "Pa_CloseStream") = (IF StreamOpened THEN 1 ELSE 0)
    /\ stream \in {"null", "closed"}
    /\ Count(calls, "Pa_StopStream") <= 1
    /\ everRunning => Count(calls, "Pa_StopStream") = 1
    /\ Before(calls, "Pa_StopStream", "Pa_CloseStream")
    /\ Before(calls, "Pa_CloseStream", "soundtouch_destroyInstance")
    /\ Before(calls, "Pa_StopStream", "soundtouch_destroyInstance")
    /\ Before(calls, "soundtouch_destroyInstance", "Pa_Terminate")
    /\ Before(calls, "soundtouch_createInstance", "soundtouch_destroyInstance")
    /\ Before(calls, "Pa_StartStream", "Pa_StopStream")

C7_Witness ==
  /\ pc = "done"
  /\ everRunning
  /\ cb.invoked
  /\ stream = "closed"
  /\ engine.state = "destroyed"

\* C8: when stream opening ends in failure, the engine instance created
\* before it is destroyed exactly once before main returns, and before the
\* driver subsystem is shut down.
C8_EngineReleasedOnOpenFailure ==
  (pc = "done" /\ opens # <<>> /\ LastOpen.result # paNoError) =>
    /\ ret = -1
    /\ Count(calls, "soundtouch_createInstance") = 1
    /\ Count(calls, "soundtouch_destroyInstance") = 1
    /\ engine.state = "destroyed"
    /\ Index(calls, "soundtouch_destroyInstance") < Index(calls, "Pa_Terminate")
    /\ Index(calls, "Pa_OpenStream") < Index(calls, "soundtouch_destroyInstance")

C8_Witness ==
  /\ pc = "done"
  /\ Len(opens) = 1
  /\ opens[1].result = paOtherError

\* C9: every stream-open attempt requests the smaller of the two devices'
\* default sample rates; 48000 and 44100 give 44100.
C9_MinSampleRate ==
  \A i \in 1..Len(opens) :
    /\ opens[i].sampleRate <= inInfo.defaultSampleRate
    /\ opens[i].sampleRate <= outInfo.defaultSampleRate
    /\ opens[i].sampleRate \in {inInfo.defaultSampleRate, outInfo.defaultSampleRate}
    /\ (inInfo.defaultSampleRate = 48000 /\ outInfo.defaultSampleRate = 44100)
         => opens[i].sampleRate = 44100

C9_Witness ==
  /\ Len(opens) = 2
  /\ inInfo.defaultSampleRate = 48000
  /\ outInfo.defaultSampleRate = 44100
  /\ opens[1].sampleRate = 44100
  /\ opens[2].sampleRate = 44100

\* the process exit status of a value returned from main
ExitStatus(r) == r % 256

\* C10: when a startup step fails the process ends with a non-zero exit
\* status; exit status 0 is returned only after a run in which the stream was
\* opened and reached Running.
C10_NonZeroOnFailure ==
  pc = "done" =>
    /\ ExitStatus(ret) = 0 => (StreamOpened /\ everRunning)
    /\ ~(StreamOpened /\ everRunning) => ExitStatus(ret) # 0

\* C11: every invocation of audioCallback that returns hands 'continue' to
\* the driver, whatever the input buffer (null included), the active format
\* and the number of frames the engine returned; it never returns a complete
\* or abort result, so the stream stays Running.
C11_AlwaysContinue ==
  cb.invoked =>
    /\ cb.result \in {paContinue, "none"}
    /\ cb.result = "none" => pc = "crashed"
    /\ pc = "wait" => (cb.result = paContinue /\ stream = "running")

C11_Witness ==
  /\ cb.invoked
  /\ cb.inputNull
  /\ cb.format = paInt16
  /\ cb.received = 0
  /\ cb.result = paContinue

\* C12: with a null input buffer, in either format, the callback reads
\* nothing through the input pointer and still feeds the engine exactly
\* framesPerBuffer frames of zero samples, then drains, pads and writes the
\* output as in the non-null case.
C12_NullInputIsSilence ==
  (cb.invoked /\ cb.inputNull) =>
    /\ cb.format \in {paFloat32, paInt16}
    /\ cb.inputRead = 0
    /\ cb.fedFrames = FRAMES_PER_BUFFER
    /\ Len(cb.fed) = FRAMES_PER_BUFFER * cb.channels
    /\ \A i \in 1..Len(cb.fed) : cb.fed[i] = 0
    /\ cb.drainMax = FRAMES_PER_BUFFER
    /\ Len(cb.outFloat) = FRAMES_PER_BUFFER * cb.channels
    /\ \A i \in 1..Len(cb.outFloat) :
         cb.outFloat[i] = (IF i <= cb.received * cb.channels THEN cb.engineOut[i] ELSE 0)
    /\ \A i \in 1..Len(cb.output) :
         i <= Len(cb.outFloat) => cb.output[i] = OutSample(cb.format, cb.outFloat[i])

C12_Witness ==
  /\ cb.invoked
  /\ cb.inputNull
  /\ cb.format = paFloat32
  /\ cb.received = FRAMES_PER_BUFFER
  /\ cb.fedFrames = FRAMES_PER_BUFFER

IsProtocolOp(op) == op \in {"convert-input", "feed", "drain", "pad", "convert-output"}

\* C17: each invocation runs convert-input, feed, drain, pad, convert-output
\* in that order, with exactly one feed of the whole framesPerBuffer-frame
\* normalized buffer followed by exactly one drain asking for at most
\* framesPerBuffer frames.
C17_CallbackOrder ==
  cb.invoked =>
    /\ SelectSeq(cb.ops, IsProtocolOp) =
         <<"convert-input", "feed", "drain", "pad", "convert-output">>
    /\ cb.fedFrames = FRAMES_PER_BUFFER
    /\ cb.fed = cb.inFloat
    /\ Len(cb.fed) = FRAMES_PER_BUFFER * cb.channels
    /\ cb.drainMax <= FRAMES_PER_BUFFER
    /\ cb.received <= cb.drainMax

C17_Witness ==
  /\ cb.invoked
  /\ ~cb.inputNull
  /\ cb.format = paInt16
  /\ cb.received = 1
  /\ Len(cb.ops) > 0

\* C18: no invocation allocates or frees dynamic memory: the operations
\* between entry and return are only conversion, feed, drain and padding.
C18_NoAllocation ==
  cb.invoked => \A i \in 1..Len(cb.ops) : IsProtocolOp(cb.ops[i])

\* C15 as stated: during teardown the engine handle is released before the
\* stream handle, so when the stream is Closed the engine is already destroyed.
C15_EngineBeforeStream ==
  stream = "closed" =>
    /\ Count(calls, "soundtouch_destroyInstance") = 1
    /\ Index(calls, "soundtouch_destroyInstance") < Index(calls, "Pa_CloseStream")

\* C15 amended: during teardown the stream handle is released before the
\* engine handle: when the engine of an opened stream is destroyed the stream
\* is already Closed, and a closed stream's engine is destroyed by the time
\* main returns.
C15_StreamBeforeEngine ==
  /\ (StreamOpened /\ engine.state = "destroyed") =>
       /\ stream = "closed"
       /\ Count(calls, "Pa_CloseStream") = 1
       /\ Index(calls, "Pa_CloseStream") < Index(calls, "soundtouch_destroyInstance")
  /\ (stream = "closed" /\ pc = "done") => engine.state = "destroyed"

C15_Witness ==
  /\ pc = "terminate"
  /\ stream = "closed"
  /\ engine.state = "destroyed"

\* C16: main writes the callback configuration and calls the engine only
\* before the stream is started or after it has been stopped and closed, and a
\* callback invocation only happens while the engine is live and configured
\* and leaves both untouched.
C16_NoOverlap ==
  [][/\ (cbData' # cbData \/ engine' # engine) =>
          \/ (~Started /\ stream \in {"null", "open"})
          \/ stream = "closed"
     /\ cb' # cb =>
          /\ stream = "running"
          /\ engine.state = "live"
          /\ engine.sampleRate = sampleRate
          /\ engine.channels = cbData.channels
          /\ engine.channels >= 1
          /\ cbData.hST = "hST"]_vars

C16_Witness ==
  /\ pc = "done"
  /\ cb.invoked
  /\ Len(opens) = 2
  /\ stream = "closed"
  /\ engine.state = "destroyed"

\* C19: on every path on which the stream is started, the engine was created
\* and configured with the negotiated sample rate and the negotiated (shared)
\* channel count before the start, and keeps that configuration afterwards.
C19_ConfiguredBeforeStart ==
  Started =>
    LET inSide == IF inInfo.maxInputChannels >= 2 THEN 2 ELSE 1
        outSide == IF outInfo.maxOutputChannels >= 2 THEN 2 ELSE 1
    IN /\ engine.state \in {"live", "destroyed"}
       /\ Index(calls, "soundtouch_createInstance") > 0
       /\ Index(calls, "soundtouch_createInstance") < Index(calls, "soundtouch_setSampleRate")
       /\ Index(calls, "soundtouch_setSampleRate") < Index(calls, "Pa_StartStream")
       /\ Index(calls, "soundtouch_setChannels") < Index(calls, "Pa_StartStream")
       /\ Index(calls, "soundtouch_setPitchSemiTones") < Index(calls, "Pa_StartStream")
       /\ engine.sampleRate <= inInfo.defaultSampleRate
       /\ engine.sampleRate <= outInfo.defaultSampleRate
       /\ engine.sampleRate = LastOpen.sampleRate
       /\ engine.channels = (IF inSide < outSide THEN inSide ELSE outSide)
       /\ engine.pitch = -4

\* C13: in Fixed16 mode every normalized sample v gives a 16-bit output in
\* [-32767, 32767]: v * 32767 truncated toward zero when -1.0 <= v <= 1.0,
\* exactly 32767 when v > 1.0 and exactly -32767 when v < -1.0.
C13_Fixed16Range ==
  (conv.kind = "normalized" /\ conv.stage = "out") =>
    /\ conv.out >= -32767
    /\ conv.out <= 32767
    /\ conv.out # Int16Min
    /\ (conv.v >= 0 /\ conv.v <= NormOne) =>
         /\ conv.out * NormOne <= conv.v * 32767
         /\ conv.v * 32767 < (conv.out + 1) * NormOne
    /\ (conv.v <= 0 /\ conv.v >= -NormOne) =>
         /\ conv.out * NormOne >= conv.v * 32767
         /\ conv.v * 32767 > (conv.out - 1) * NormOne
    /\ conv.v > NormOne => conv.out = 32767
    /\ conv.v < -NormOne => conv.out = -32767

C13_Witness ==
  /\ conv.kind = "normalized"
  /\ conv.stage = "out"
  /\ conv.v = MaxSample
  /\ conv.out = 32767

\* C14: every int16 sample s, divided by 32768 and converted back to Fixed16,
\* comes back as r with |r - s| <= 1.
C14_RoundTripWithinOne ==
  (conv.kind = "fixed16" /\ conv.stage = "out") =>
    /\ conv.out - conv.s <= 1
    /\ conv.s - conv.out <= 1

C14_Witness ==
  /\ conv.kind = "fixed16"
  /\ conv.stage = "out"
  /\ conv.s = Int16Min
  /\ conv.out = -32767

\* two invocations got the same input buffer and the same engine response
SameInputs(a, b) ==
  /\ a.inputNull = b.inputNull
  /\ a.input = b.input
  /\ a.received = b.received
  /\ a.engineOut = b.engineOut

\* C20: an invocation leaves the shared configuration (engine handle, format,
\* channel count) as it found it, and an invocation given the same input
\* buffer and the same engine response as any earlier one hands the engine the
\* same samples and produces the same output buffer.
C20_NoCarriedState ==
  /\ [][cb' # cb => (cbData' = cbData /\ engine' = engine /\ fmt' = fmt)]_vars
  /\ []((cb.invoked /\ hist.invoked /\ SameInputs(cb, hist)) =>
          /\ cb.output = hist.output
          /\ cb.outFloat = hist.outFloat
          /\ cb.fed = hist.fed)

C20_Witness ==
  /\ cb.invoked
  /\ hist.invoked
  /\ SameInputs(cb, hist)
  /\ cb.inputNull
  /\ cb.received = 1
  /\ cb.format = paInt16
====
